---- MODULE Spec2Model ----
(***************************************************************************)
(* The three programs of the repository as one state machine:              *)
(*   "room"   src/script.js                 the decorated room             *)
(*   "solarA" src/unnamed/part_000 1-269    the solar system, first variant *)
(*   "solarB" src/unnamed/part_000 271-693  the solar system, second variant*)
(* The variable scene says which program the page is to show; it never     *)
(* changes.                                                                *)
(*                                                                         *)
(* Spec is the programs as the files stand. src/script.js runs.            *)
(* src/unnamed/part_000 is one file holding both solar programs, each with *)
(* its own import declarations: loaded as a module it is rejected as a     *)
(* whole when it is parsed (THREE is imported at line 4 and again at line  *)
(* 274, and line 275, import { OrbitControls } = ..., is not an import     *)
(* declaration), so no statement, listener or callback of either variant   *)
(* runs: the page stays as it is before any statement.                     *)
(*                                                                         *)
(* SpecAsRead is the same machine with each of the two programs taken as a *)
(* module of its own, as its statements read: lines 1-269, and lines       *)
(* 271-693 with line 275 read as import { OrbitControls } from ...         *)
(* What the statements of part_000 do when they run is settled against it. *)
(*                                                                         *)
(* The camera is moved by OrbitControls, whose code is not in src/: the    *)
(* model keeps of it that input is recorded by its listeners and taken up  *)
(* by the controls.update() the scripts call, not where the camera goes.   *)
(*                                                                         *)
(* Angles are integers in units of 1e-7 rad, canvas ordinates in units of  *)
(* a tenth of a pixel, a window size is a pair <<W, H>> and an aspect ratio W/H  *)
(* is kept as the pair <<W, H>> (compared by cross-multiplication).        *)
(***************************************************************************)
EXTENDS Integers, Sequences, FiniteSets, TLC

\* ------------------------------------------------------------- bounds
MaxTicks == 20          \* executions of animate explored
MaxTimerFirings == 9    \* firings of the code-scroll timer explored
MaxTextures == 2        \* texture loads modelled per solar scene
MaxColumns == 1         \* matrix-rain columns modelled

\* ---------------------------------------------------------- constants
QuarterPi == 7853982            \* Math.PI / 4
TwoPi == 8 * QuarterPi
FallbackColor == 8947848        \* 0x888888
MatrixCanvasWidth == 512
MatrixCanvasHeight == 256
ColumnWidth == 14
ResetMargin == 80
NumCodeLines == 9
PaintedRows == 9
SunStepA == 4000                \* 0.0004
SunStepB == 5000                \* 0.0005
MoonOrbitStep == 200000         \* 0.02
MoonSpinStep == 50000           \* 0.005
OrbitNumeratorB == 50000        \* 0.005
SpinNumeratorB == 500000        \* 0.05
RadiansPerDegree == 17453       \* Math.PI / 180, in 1e-6 rad

Scenes == {"room", "solarA", "solarB"}

\* whether the file of program s is evaluated when the page loads it:
\* part_000, the file of both solar variants, is rejected as a whole
\* (import * as THREE at lines 4 and 274: SyntaxError)
Parses(s) == s = "room"
\* the program whose statements run once the page has loaded the file of s,
\* the file being as it stands
Loaded(s) == IF Parses(s) THEN s ELSE "none"

Min(a, b) == IF a < b THEN a ELSE b

\* JavaScript's division of an integer numerator by hundredths, truncated
\* toward zero to the model's angle unit.
DivHundredths(num, centi) ==
  IF centi > 0 THEN (num * 100) \div centi ELSE -((num * 100) \div (-centi))

\* ------------------------------------------------------ planet tables
\* planetParams (first variant): orbitSpeed and rotationSpeed in 1e-7 rad.
OrbitSpeedTableA == <<80000, 70000, 60000, 50000, 25000, 18000, 9000, 7000, 5000>>
RotationSpeedTableA == <<180000, 80000, 160000, 140000, 300000, 250000, 190000, 170000, 120000>>

\* planetsData (second variant): periods in hundredths, tilt in hundredths
\* of a degree.
OrbitalPeriodTableB == <<24, 62, 100, 188, 1186, 2946, 8401, 16479>>
RotationPeriodTableB == <<5860, -24300, 100, 103, 41, 44, -72, 67>>
AxialTiltTableB == <<3, 17730, 2350, 2520, 310, 2670, 9780, 2830>>
HasCloudsB == {2, 3}
HasNightLightsB == {3}
EarthB == 3
SaturnA == 6
SaturnB == 6
WallPanels == 5
KeyRows == 4
KeyColumns == 12
ChairArms == 5
Sides == 2

Bodies(s) ==
  IF s = "solarA" THEN 1..Len(OrbitSpeedTableA)
  ELSE IF s = "solarB" THEN 1..Len(OrbitalPeriodTableB)
  ELSE {}

\* idx * Math.PI / 4, idx the zero-based position in planetParams
InitialAngleA(b) == (b - 1) * QuarterPi
OrbitSpeedA(b) == OrbitSpeedTableA[b]
\* rotationSpeed * 0.03
SpinStepA(b) == (RotationSpeedTableA[b] * 3) \div 100
\* 0.005 / orbitalPeriod
OrbitSpeedB(b) == DivHundredths(OrbitNumeratorB, OrbitalPeriodTableB[b])
\* 0.05 / rotationPeriod
SpinStepB(b) == DivHundredths(SpinNumeratorB, RotationPeriodTableB[b])
\* (0.05 / rotationPeriod) * 0.9
CloudSpinStepB(b) == (SpinStepB(b) * 9) \div 10
\* axialTilt * Math.PI / 180, from hundredths of a degree
TiltRadiansB(b) == (AxialTiltTableB[b] * RadiansPerDegree) \div 1000

\* -------------------------------------------------------- scene graph
\* objects are named by kind and body
SceneRoot == <<"scene", 0>>
Origin == <<0, 0, 0>>

\* a slip: the orbit circle added to the orbit group instead of the scene
AddCallsAPathInGroup(b) ==
  << <<SceneRoot, <<"orbitGroup", b>>>>,
     << <<"orbitGroup", b>>, <<"orbitPath", b>>>> >>
  \o (IF b = SaturnA THEN << << <<"planet", b>>, <<"ring", b>>>> >> ELSE <<>>)
  \o << << <<"orbitGroup", b>>, <<"planet", b>>>> >>
\* planetParams.forEach: the add calls for body b, <<parent, child>>, in order
AddCallsA(b) ==
  << <<SceneRoot, <<"orbitGroup", b>>>>,
     <<SceneRoot, <<"orbitPath", b>>>> >>
  \o (IF b = SaturnA THEN << << <<"planet", b>>, <<"ring", b>>>> >> ELSE <<>>)
  \o << << <<"orbitGroup", b>>, <<"planet", b>>>> >>

\* planetsData.forEach (planets): the add calls for body b, in order
AddCallsB(b) ==
  << <<SceneRoot, <<"orbitGroup", b>>>>,
     << <<"orbitGroup", b>>, <<"planet", b>>>> >>
  \o (IF b \in HasCloudsB THEN << << <<"planet", b>>, <<"clouds", b>>>> >> ELSE <<>>)
  \o (IF b \in HasNightLightsB
      THEN << << <<"planet", b>>, <<"nightLights", b>>>> >> ELSE <<>>)
  \o (IF b = SaturnB THEN << << <<"planet", b>>, <<"rings", b>>>> >> ELSE <<>>)
  \o (IF b = EarthB
      THEN << << <<"planet", b>>, <<"moonOrbit", b>>>>,
              << <<"moonOrbit", b>>, <<"moon", b>>>> >>
      ELSE <<>>)

\* planetsData.forEach (orbit paths): the add calls for body b
PathCallsB(b) ==
  << <<SceneRoot, <<"orbitPath", b>>>> >>
  \o (IF b = EarthB THEN << << <<"planet", EarthB>>, <<"moonPath", b>>>> >> ELSE <<>>)

\* the lights and the sun, added before the planets (both variants); the
\* second variant gives the sun a corona sprite as well
SunCalls(s) ==
  << <<SceneRoot, <<"ambientLight", 0>>>>,
     <<SceneRoot, <<"sunLight", 0>>>>,
     <<SceneRoot, <<"sun", 0>>>>,
     << <<"sun", 0>>, <<"sunGlowLight", 0>>>> >>
  \o (IF s = "solarB" THEN << << <<"sun", 0>>, <<"corona", 0>>>> >> ELSE <<>>)

\* scene.add(stars), after the planets
StarCalls == << <<SceneRoot, <<"stars", 0>>>> >>

\* createWall: the base and five panels added to the wall group
WallCalls(wall, base, panel) ==
  << << <<wall, 0>>, <<base, 0>>>> >>
  \o [i \in 1..WallPanels |-> << <<wall, 0>>, <<panel, i>>>>]

\* the room: floor, ceiling and the three walls
RoomShellCalls ==
  << <<SceneRoot, <<"floor", 0>>>>, <<SceneRoot, <<"ceiling", 0>>>> >>
  \o WallCalls("backWall", "backWallBase", "backWallPanel")
  \o << <<SceneRoot, <<"backWall", 0>>>> >>
  \o WallCalls("leftWall", "leftWallBase", "leftWallPanel")
  \o << <<SceneRoot, <<"leftWall", 0>>>> >>
  \o WallCalls("rightWall", "rightWallBase", "rightWallPanel")
  \o << <<SceneRoot, <<"rightWall", 0>>>> >>

\* the desk, the keyboard (its keys row by row), the mouse and the monitors
DeskCalls ==
  << << <<"workstation", 0>>, <<"desk", 0>>>>,
     << <<"keyboard", 0>>, <<"keyboardBody", 0>>>> >>
  \o [k \in 1..(KeyRows * KeyColumns) |-> << <<"keyboard", 0>>, <<"key", k>>>>]
  \o << << <<"keyboard", 0>>, <<"keyboardLight", 0>>>>,
        << <<"workstation", 0>>, <<"keyboard", 0>>>>,
        << <<"mouse", 0>>, <<"mouseBody", 0>>>>,
        << <<"workstation", 0>>, <<"mouse", 0>>>>,
        << <<"workstation", 0>>, <<"mainMonitor", 0>>>>,
        << <<"workstation", 0>>, <<"sideMonitor", 0>>>> >>

\* the chair's star base: for each of the five arms a leg and a wheel
ChairBaseCalls(i) ==
  << << <<"officeChair", 0>>, <<"chairLeg", i>>>>,
     << <<"officeChair", 0>>, <<"wheel", i>>>> >>

\* one armrest (side 1 is -1, side 2 is 1)
ArmrestCalls(side) ==
  << << <<"armrest", side>>, <<"armVertical", side>>>>,
     << <<"armrest", side>>, <<"armHorizontal", side>>>>,
     << <<"officeChair", 0>>, <<"armrest", side>>>> >>

\* one leg and one arm of the person
LimbCalls(side) ==
  << << <<"leg", side>>, <<"upperLeg", side>>>>,
     << <<"leg", side>>, <<"lowerLeg", side>>>>,
     << <<"person", 0>>, <<"leg", side>>>>,
     << <<"arm", side>>, <<"upperArm", side>>>>,
     << <<"arm", side>>, <<"lowerArm", side>>>>,
     << <<"person", 0>>, <<"arm", side>>>> >>

\* the body of one of the forEach / for loops, for index b
LoopBody(loop, b) ==
  IF loop = "planetParams" THEN AddCallsA(b)
  ELSE IF loop = "planetsData" THEN AddCallsB(b)
  ELSE IF loop = "orbitPaths" THEN PathCallsB(b)
  ELSE IF loop = "chairBase" THEN ChairBaseCalls(b)
  ELSE IF loop = "armrests" THEN ArmrestCalls(b)
  ELSE LimbCalls(b)

\* the calls of one loop over indices 1..n, in order
RECURSIVE ForEach(_, _)
ForEach(loop, n) ==
  IF n = 0 THEN <<>> ELSE ForEach(loop, n - 1) \o LoopBody(loop, n)

\* the chair with the person on it, added to the workstation, and the
\* workstation added to the scene
ChairCalls ==
  << << <<"officeChair", 0>>, <<"baseCenter", 0>>>> >>
  \o ForEach("chairBase", ChairArms)
  \o << << <<"officeChair", 0>>, <<"stem", 0>>>>,
        << <<"officeChair", 0>>, <<"seatCushion", 0>>>>,
        << <<"backrest", 0>>, <<"mainBack", 0>>>>,
        << <<"backrest", 0>>, <<"leftBolster", 0>>>>,
        << <<"backrest", 0>>, <<"rightBolster", 0>>>>,
        << <<"officeChair", 0>>, <<"backrest", 0>>>> >>
  \o ForEach("armrests", Sides)
  \o << << <<"person", 0>>, <<"torso", 0>>>>,
        << <<"person", 0>>, <<"neck", 0>>>>,
        << <<"person", 0>>, <<"head", 0>>>>,
        << <<"person", 0>>, <<"hood", 0>>>> >>
  \o ForEach("limbs", Sides)
  \o << << <<"officeChair", 0>>, <<"person", 0>>>>,
        << <<"workstation", 0>>, <<"officeChair", 0>>>>,
        <<SceneRoot, <<"workstation", 0>>>> >>

\* the door frame, the window with its stars, and the lights
DecorCalls ==
  << << <<"doorFrame", 0>>, <<"doorLightTop", 0>>>>,
     << <<"doorFrame", 0>>, <<"doorLightLeft", 0>>>>,
     << <<"doorFrame", 0>>, <<"doorLightRight", 0>>>>,
     <<SceneRoot, <<"doorFrame", 0>>>>,
     <<SceneRoot, <<"windowHole", 0>>>>,
     <<SceneRoot, <<"stars", 0>>>>,
     <<SceneRoot, <<"ringLight", 0>>>>,
     <<SceneRoot, <<"floorLight1", 0>>>>,
     <<SceneRoot, <<"ambientLight", 0>>>>,
     <<SceneRoot, <<"monitorLight", 0>>>> >>

\* every add call of the construction, in program order
AddCalls(s) ==
  IF s = "solarA"
  THEN SunCalls(s) \o ForEach("planetParams", Len(OrbitSpeedTableA)) \o StarCalls
  ELSE IF s = "solarB"
  THEN SunCalls(s)
       \o ForEach("planetsData", Len(OrbitalPeriodTableB))
       \o ForEach("orbitPaths", Len(OrbitalPeriodTableB))
       \o StarCalls
  ELSE IF s = "room"
  THEN RoomShellCalls \o DeskCalls \o ChairCalls \o DecorCalls
  ELSE <<>>

\* Object3D.add takes the child from the parent it had and pushes it onto the
\* children of the new one: call i still counts when no later call adds the
\* same child again
Stands(calls, i) ==
  \A j \in (i + 1)..Len(calls) : calls[j][2] # calls[i][2]

\* the children of every object once the calls have run: under each parent
\* the children whose last add was to it, in the order of those adds
Construct(calls) ==
  LET nodes == {calls[i][1] : i \in 1..Len(calls)} \cup {calls[i][2] : i \in 1..Len(calls)}
      adds(n) == SelectSeq([i \in 1..Len(calls) |-> i],
                           LAMBDA i : calls[i][1] = n /\ Stands(calls, i))
  IN  [n \in nodes |-> [k \in 1..Len(adds(n)) |-> calls[adds(n)[k]][2]]]

\* the orbit groups: one per planet, and the moon's in the second variant
OrbitGroups(s) ==
  {<<"orbitGroup", b>> : b \in Bodies(s)}
  \cup (IF s = "solarB" THEN {<<"moonOrbit", EarthB>>} ELSE {})

\* new THREE.Group(): position (0, 0, 0), which no statement assigns again
NewGroupPosition == Origin

\* the scene graph the script has built when it reaches its last statement
ConstructedGraph(s) ==
  [children |-> Construct(AddCalls(s)),
   groupPos |-> [g \in OrbitGroups(s) |-> NewGroupPosition]]

\* ---------------------------------------------------------- the state
VARIABLES
  scene,          \* which program runs
  sceneGraph,     \* children of every object and position of every orbit group
  pc,             \* position of the top-level script
  rafQueue,       \* requestAnimationFrame callbacks registered for the next refresh
  running,        \* callbacks of the refresh in progress, still to run
  trace,          \* steps of the current refresh tick, in order
  ticks,          \* executions of animate so far
  pendingInput,   \* whether the controls hold input no controls.update() has taken up
  window,         \* window.innerWidth, window.innerHeight
  cameraAspect,   \* camera.aspect
  rendererSize,   \* the render surface
  composerSize,   \* the post-processing composer (room)
  lastRender,     \* what the last rendered frame was drawn with
  texStatus,      \* per texture load: pending, loaded, failed
  held,           \* image of the texture object loadTexture returned
  discarded,      \* placeholders an error callback built and returned
  sunRot,         \* sun.rotation.y
  angle,          \* pg.angle (first variant)
  orbitRot,       \* orbitGroup.rotation.y
  spin,           \* mesh.rotation.y
  tilt,           \* mesh.rotation.x, clouds' and night lights' rotation.x
  cloudSpin,      \* cloudsMesh.rotation.y
  moon,           \* moon orbit group rotation.y and moon mesh rotation.y
  mDrops,         \* matrix-rain drops
  matrixTex,      \* matrixTexture.version and the version the renderer uploaded
  codeScroll,     \* first code line shown on the side monitor
  sideCanvas,     \* code line drawn on each row of the side canvas
  codeTex,        \* codeTexture.version and the version the renderer uploaded
  timers,         \* pending setTimeout callbacks and firings so far
  pose            \* head and arm pose: whether animate set it, and from which Date.now() sample

schedVars == <<pc, rafQueue, running>>
camVars == <<pendingInput>>
viewVars == <<window, cameraAspect, rendererSize, composerSize>>
texVars == <<texStatus, held, discarded>>
solarVars == <<sunRot, angle, orbitRot, spin, tilt, cloudSpin, moon>>
rainVars == <<mDrops, matrixTex>>
codeVars == <<codeScroll, sideCanvas, codeTex, timers>>
vars == <<scene, sceneGraph, pc, rafQueue, running, trace, ticks, pendingInput,
          window, cameraAspect, rendererSize, composerSize,
          lastRender, texStatus, held, discarded, sunRot, angle, orbitRot,
          spin, tilt, cloudSpin, moon, mDrops, matrixTex, codeScroll,
          sideCanvas, codeTex, timers, pose>>

\* ----------------------------------------------------------- controls
\* controls.update(): the controls take up the input recorded since the
\* last call
ControlsUpdate == pendingInput' = FALSE

\* the top-level script has run to its end: events and callbacks may run
ScriptDone == pc \in {"idle", "onload"}

\* a wheel event on the canvas: the listener of the controls records it
Wheel ==
  /\ ScriptDone
  /\ running = <<>>
  /\ pendingInput' = TRUE
  /\ UNCHANGED <<scene, sceneGraph, schedVars, trace, ticks, viewVars, lastRender, texVars,
                 solarVars, rainVars, codeVars, pose>>

\* ----------------------------------------------------------- viewport
\* the size of a surface that was never made
NoSurface == <<0, 0>>
WinSizes == {<<800, 600>>, <<1920, 1080>>}
InitialWindow == <<800, 600>>
NoComposer == <<0, 0>>

SameRatio(a, b) == a[1] * b[2] = b[1] * a[2]

\* the resize listener's writes
ResizedAspect(size) == size
\* a slip: renderer.setSize left out of the listener
ResizedRendererStale(size, old) == old
ResizedRenderer(size, old) == size
ResizedComposer(s, size, old) == IF s = "room" THEN size ELSE old

\* a slip: the listener registers animate again
ResizeRegistersFrame ==
  /\ ScriptDone
  /\ running = <<>>
  /\ \E size \in WinSizes \ {window} :
       /\ window' = size
       /\ cameraAspect' = ResizedAspect(size)
       /\ rendererSize' = ResizedRenderer(size, rendererSize)
       /\ composerSize' = ResizedComposer(scene, size, composerSize)
  /\ rafQueue' = Append(rafQueue, "animate")
  /\ UNCHANGED <<scene, sceneGraph, pc, running, trace, ticks, camVars, lastRender,
                 texVars, solarVars, rainVars, codeVars, pose>>

\* the resize listener: window.innerWidth / innerHeight have changed
Resize ==
  /\ ScriptDone
  /\ running = <<>>
  /\ \E size \in WinSizes \ {window} :
       /\ window' = size
       /\ cameraAspect' = ResizedAspect(size)
       /\ rendererSize' = ResizedRenderer(size, rendererSize)
       /\ composerSize' = ResizedComposer(scene, size, composerSize)
  /\ UNCHANGED <<scene, sceneGraph, schedVars, trace, ticks, camVars, lastRender, texVars,
                 solarVars, rainVars, codeVars, pose>>

\* renderer.render / composer.render: the frame drawn from the current state
Frame ==
  [aspect |-> cameraAspect, size |-> rendererSize, composer |-> composerSize,
   viewport |-> window]

\* a slip: the callback registered twice
RequestAnimationFrameTwice(queue, f) == Append(Append(queue, f), f)
\* a slip: the callback not registered
RequestAnimationFrameDropped(queue, f) == queue
\* requestAnimationFrame(f): f joins the callbacks of the next refresh
RequestAnimationFrame(queue, f) == Append(queue, f)

\* ----------------------------------------------------------- textures
Textures(s) == IF s \in {"solarA", "solarB"} THEN 1..MaxTextures ELSE {}

\* the onError callback of loadTexture: a 1x1 canvas texture of the fallback
\* color, returned to the loader
ErrorCallbackResult(fallbackColor) == [image |-> "canvas", color |-> fallbackColor]

\* textureLoader.load returns its own Texture at once and ignores what the
\* onError callback returns: the caller's texture is the one it already holds
HeldAfterError(texture, placeholder) == texture

\* the loader's own completion: texture.image = image
HeldAfterLoad(texture) == [image |-> "bitmap", color |-> 0]

TextureLoaded ==
  /\ ScriptDone
  /\ running = <<>>
  /\ \E t \in Textures(scene) :
       /\ texStatus[t] = "pending"
       /\ texStatus' = [texStatus EXCEPT ![t] = "loaded"]
       /\ held' = [held EXCEPT ![t] = HeldAfterLoad(held[t])]
  /\ discarded' = discarded
  /\ UNCHANGED <<scene, sceneGraph, schedVars, trace, ticks, camVars, viewVars, lastRender,
                 solarVars, rainVars, codeVars, pose>>

TextureFailed ==
  /\ ScriptDone
  /\ running = <<>>
  /\ \E t \in Textures(scene) :
       /\ texStatus[t] = "pending"
       /\ texStatus' = [texStatus EXCEPT ![t] = "failed"]
       /\ held' = [held EXCEPT ![t] =
                     HeldAfterError(held[t], ErrorCallbackResult(FallbackColor))]
       /\ discarded' = discarded \cup {t}
  /\ UNCHANGED <<scene, sceneGraph, schedVars, trace, ticks, camVars, viewVars, lastRender,
                 solarVars, rainVars, codeVars, pose>>

\* ------------------------------------------- solar system, frame tick
\* a slip: the accumulated angle kept within one turn
AccumulateAngleWrapped(a, speed) == (a + speed) % TwoPi
\* pg.angle += pg.params.orbitSpeed
AccumulateAngle(a, speed) == a + speed
\* pg.orbitGroup.rotation.y = pg.angle
GroupRotationA(rot, a) == a
\* orbitGroup.rotation.y += 0.005 / data.orbitalPeriod
GroupRotationB(rot, speed) == rot + speed
\* a slip: the spin restarted from the increment on every tick
AccumulateSpinRestarted(rot, step) == step
\* mesh.rotation.y += the body's per-frame spin increment
AccumulateSpin(rot, step) == rot + step
\* a slip: the moon's angle taken from Earth's orbit group
MoonOrbitFromParent(rot, parentRot) == parentRot + MoonOrbitStep
\* data.moon.orbitGroup.rotation.y += 0.02
MoonOrbitAfter(rot, parentRot) == rot + MoonOrbitStep

\* animate, first variant
AnimateA ==
  /\ rafQueue' = RequestAnimationFrame(rafQueue, "animate")
  /\ ControlsUpdate
  /\ sunRot' = sunRot + SunStepA
  /\ angle' = [b \in Bodies(scene) |-> AccumulateAngle(angle[b], OrbitSpeedA(b))]
  /\ orbitRot' = [b \in Bodies(scene) |-> GroupRotationA(orbitRot[b], angle'[b])]
  /\ spin' = [b \in Bodies(scene) |-> AccumulateSpin(spin[b], SpinStepA(b))]
  /\ lastRender' = Frame
  /\ ticks' = ticks + 1
  /\ trace' = trace \o <<"controls.update", "accumulate", "render">>
  /\ UNCHANGED <<scene, sceneGraph, viewVars, texVars, tilt, cloudSpin, moon, rainVars,
                 codeVars, pose>>

\* a slip: the tilt added on every tick
AssignTiltAccumulated(old, b) == old + TiltRadiansB(b)
\* <object>.rotation.x = data.axialTilt * Math.PI / 180
AssignTilt(old, b) == TiltRadiansB(b)

\* animate, second variant
AnimateB ==
  /\ rafQueue' = RequestAnimationFrame(rafQueue, "animate")
  /\ ControlsUpdate
  /\ sunRot' = sunRot + SunStepB
  /\ tilt' = [b \in Bodies(scene) |->
               [mesh |-> AssignTilt(tilt[b].mesh, b),
                clouds |-> IF b \in HasCloudsB
                           THEN AssignTilt(tilt[b].clouds, b) ELSE tilt[b].clouds,
                night |-> IF b \in HasNightLightsB
                          THEN AssignTilt(tilt[b].night, b) ELSE tilt[b].night]]
  /\ orbitRot' = [b \in Bodies(scene) |-> GroupRotationB(orbitRot[b], OrbitSpeedB(b))]
  /\ spin' = [b \in Bodies(scene) |-> AccumulateSpin(spin[b], SpinStepB(b))]
  /\ cloudSpin' = [b \in Bodies(scene) |->
                    IF b \in HasCloudsB THEN cloudSpin[b] + CloudSpinStepB(b)
                    ELSE cloudSpin[b]]
  /\ moon' = [orbit |-> MoonOrbitAfter(moon.orbit, orbitRot'[EarthB]),
              spin |-> moon.spin + MoonSpinStep]
  /\ lastRender' = Frame
  /\ ticks' = ticks + 1
  /\ trace' = trace \o <<"controls.update", "accumulate", "render">>
  /\ UNCHANGED <<scene, sceneGraph, viewVars, texVars, angle, rainVars, codeVars, pose>>

\* ------------------------------------------- room, canvas textures
\* A canvas texture: version counts the needsUpdate marks (the CanvasTexture
\* constructor sets the first), uploaded is the version the renderer last
\* uploaded, paints counts the repaints of the canvas, shown is the repaint
\* the uploaded image holds, lastOp the latest of repaint and mark.
NewCanvasTexture ==
  [version |-> 1, uploaded |-> 0, paints |-> 0, shown |-> 0, lastOp |-> "mark"]
NoCanvasTexture ==
  [version |-> 0, uploaded |-> 0, paints |-> 0, shown |-> 0, lastOp |-> "none"]

\* a slip: the mark left out
MarkDirtyForgotten(tex) == tex
\* texture.needsUpdate = true
MarkDirty(tex) == [tex EXCEPT !.version = @ + 1, !.lastOp = "mark"]

\* fillRect / fillText on the canvas of the texture
Repaint(tex) == [tex EXCEPT !.paints = @ + 1, !.lastOp = "paint"]

\* the renderer, drawing a mesh that maps the texture: it uploads the canvas
\* as it is now when the version differs from the one it uploaded last
Upload(tex) ==
  IF tex.version # tex.uploaded
  THEN [tex EXCEPT !.uploaded = tex.version, !.shown = tex.paints]
  ELSE tex

\* --------------------------------------------------- room, matrix rain
\* mColumns = Math.floor(matrixCanvas.width / 14), of which the model keeps
\* at most MaxColumns
Columns == Min(MatrixCanvasWidth \div ColumnWidth, MaxColumns)
\* matrixCanvas.height + 80, in tenths of a pixel
ResetThreshold == 10 * (MatrixCanvasHeight + ResetMargin)
\* a drop as the start-up loop draws it: y in 0..255 px, speed in [1.5, 4.5) px
DropChoices ==
  {[y |-> 0, speed |-> 15], [y |-> 10 * (MatrixCanvasHeight - 1), speed |-> 44]}

\* drop.y += drop.speed
Fallen(drop) == drop.y + drop.speed
\* a slip: the reset allowed wherever the drop is
MayResetAnywhere(drop) == TRUE
\* if (drop.y > matrixCanvas.height + 80 && Math.random() > 0.96) drop.y = 0
MayReset(drop) == Fallen(drop) > ResetThreshold

\* animateMatrixRain: repaint, advance every drop, mark the texture, re-register
AnimateMatrixRain ==
  /\ \E resets \in SUBSET {i \in 1..Len(mDrops) : MayReset(mDrops[i])} :
       mDrops' = [i \in 1..Len(mDrops) |->
                   [y |-> IF i \in resets THEN 0 ELSE Fallen(mDrops[i]),
                    speed |-> mDrops[i].speed]]
  /\ matrixTex' = MarkDirty(Repaint(matrixTex))
  /\ rafQueue' = RequestAnimationFrame(rafQueue, "animateMatrixRain")
  /\ trace' = Append(trace, "repaint")
  /\ UNCHANGED <<scene, sceneGraph, ticks, camVars, viewVars, lastRender, texVars, solarVars,
                 codeVars, pose>>

\* --------------------------------------------------- room, code scroll
\* a slip: the rows painted from the first line whatever the offset
PaintedLinesFromTop(scroll) == [i \in 1..PaintedRows |-> (i - 1) % NumCodeLines]
\* the 9 rows painted: row i shows codeLines[(codeScroll + i) % codeLines.length]
PaintedLines(scroll) ==
  [i \in 1..PaintedRows |-> (scroll + (i - 1)) % NumCodeLines]

\* a slip: the offset advanced by two lines
NextScrollSkipsLine(scroll) == (scroll + 2) % NumCodeLines
\* codeScroll = (codeScroll + 1) % codeLines.length
NextScroll(scroll) == (scroll + 1) % NumCodeLines

\* animateCodeOutput called by the script: paints and arms the timer
AnimateCodeOutput ==
  /\ sideCanvas' = PaintedLines(codeScroll)
  /\ codeTex' = Repaint(codeTex)
  /\ timers' = [timers EXCEPT !.pending = @ + 1]
  /\ UNCHANGED <<scene, sceneGraph, rafQueue, trace, ticks, camVars, viewVars, lastRender,
                 texVars, solarVars, rainVars, codeScroll, pose>>

\* a slip: the callback marks matrixTexture instead of codeTexture
CodeTimerMarksMatrixTexture ==
  /\ ScriptDone
  /\ running = <<>>
  /\ timers.pending > 0
  /\ timers.fired < MaxTimerFirings
  /\ codeScroll' = NextScroll(codeScroll)
  /\ matrixTex' = MarkDirty(matrixTex)
  /\ sideCanvas' = PaintedLines(codeScroll')
  /\ codeTex' = Repaint(codeTex)
  /\ timers' = [pending |-> (timers.pending - 1) + 1, fired |-> timers.fired + 1]
  /\ UNCHANGED <<scene, sceneGraph, schedVars, trace, ticks, camVars, viewVars, lastRender,
                 texVars, solarVars, mDrops, pose>>

\* the setTimeout callback: advances the scroll, marks the texture, repaints
\* through animateCodeOutput, which arms the next timer
CodeTimer ==
  /\ ScriptDone
  /\ running = <<>>
  /\ timers.pending > 0
  /\ timers.fired < MaxTimerFirings
  /\ codeScroll' = NextScroll(codeScroll)
  /\ codeTex' = Repaint(MarkDirty(codeTex))
  /\ sideCanvas' = PaintedLines(codeScroll')
  /\ timers' = [pending |-> (timers.pending - 1) + 1, fired |-> timers.fired + 1]
  /\ UNCHANGED <<scene, sceneGraph, schedVars, trace, ticks, camVars, viewVars, lastRender,
                 texVars, solarVars, rainVars, pose>>

\* ------------------------------------------------- room, frame tick
\* Date.now() as the k-th execution of animate reads it: the samples are kept
\* apart by the execution that took them
DateNow(k) == k

\* a slip: animate advances the drops as well, a second mutator of the rain
AnimateRoomAdvancesRain ==
  /\ rafQueue' = RequestAnimationFrame(rafQueue, "animate")
  /\ ControlsUpdate
  /\ pose' = [set |-> TRUE, time |-> DateNow(ticks + 1)]
  /\ mDrops' = [i \in 1..Len(mDrops) |->
                 [y |-> Fallen(mDrops[i]), speed |-> mDrops[i].speed]]
  /\ lastRender' = Frame
  /\ matrixTex' = Upload(matrixTex)
  /\ codeTex' = Upload(codeTex)
  /\ ticks' = ticks + 1
  /\ trace' = trace \o <<"controls.update", "accumulate", "render">>
  /\ UNCHANGED <<scene, sceneGraph, viewVars, texVars, solarVars, codeScroll,
                 sideCanvas, timers>>

\* animate of the room: re-register, ease the camera, pose the person from
\* Date.now(), render through the composer (which uploads marked textures)
AnimateRoom ==
  /\ rafQueue' = RequestAnimationFrame(rafQueue, "animate")
  /\ ControlsUpdate
  /\ pose' = [set |-> TRUE, time |-> DateNow(ticks + 1)]
  /\ lastRender' = Frame
  /\ matrixTex' = Upload(matrixTex)
  /\ codeTex' = Upload(codeTex)
  /\ ticks' = ticks + 1
  /\ trace' = trace \o <<"controls.update", "accumulate", "render">>
  /\ UNCHANGED <<scene, sceneGraph, viewVars, texVars, solarVars, mDrops, codeScroll,
                 sideCanvas, timers>>

\* ------------------------------------------------ the top-level script
\* the calls the script makes after construction, by line, in order
\* a slip: the matrix rain never started
ScriptRoomRainNotStarted == <<"L203", "L416">>
\* a slip: animate() called before the matrix rain is started
ScriptRoomAnimateFirst == <<"L416", "L203", "L171">>
ScriptRoom == <<"L171", "L203", "L416">>
ScriptSolarA == <<"L269">>
\* the second variant calls animate from window.onload
ScriptSolarB == <<"onload">>

\* the calls a program makes at its top level and, last, from its load
\* listener; a module that is not evaluated makes none
Script(s) ==
  IF s = "room" THEN ScriptRoom
  ELSE IF s = "solarA" THEN ScriptSolarA
  ELSE IF s = "solarB" THEN ScriptSolarB
  ELSE <<>>

\* the position after the call at label l
AfterCall(s, l) ==
  LET i == CHOOSE j \in 1..Len(Script(s)) : Script(s)[j] = l
  IN  IF i < Len(Script(s)) THEN Script(s)[i + 1] ELSE "idle"

NothingRendered ==
  [aspect |-> <<0, 1>>, size |-> <<0, 0>>, composer |-> <<0, 0>>,
   viewport |-> <<0, 0>>]

\* the state once the page has dealt with the module of program l, up to
\* its first call: what the construction of l has built, or nothing at all
\* when no module was evaluated (l = "none")
Constructed(l) ==
  /\ sceneGraph = ConstructedGraph(l)
  /\ pc = IF l = "none" THEN "rejected" ELSE Head(Script(l))
  /\ rafQueue = <<>>
  /\ running = <<>>
  /\ trace = <<>>
  /\ ticks = 0
  /\ pendingInput = FALSE
  /\ window = InitialWindow
  /\ cameraAspect = IF l = "none" THEN NoSurface ELSE window
  /\ rendererSize = IF l = "none" THEN NoSurface ELSE window
  /\ composerSize = IF l = "room" THEN window ELSE NoComposer
  /\ lastRender = NothingRendered
  /\ texStatus = [t \in Textures(l) |-> "pending"]
  /\ held = [t \in Textures(l) |-> [image |-> "none", color |-> 0]]
  /\ discarded = {}
  /\ sunRot = 0
  /\ angle = [b \in (IF l = "solarA" THEN Bodies(l) ELSE {}) |-> InitialAngleA(b)]
  /\ orbitRot = [b \in Bodies(l) |-> 0]
  /\ spin = [b \in Bodies(l) |-> 0]
  /\ tilt = [b \in Bodies(l) |-> [mesh |-> 0, clouds |-> 0, night |-> 0]]
  /\ cloudSpin = [b \in Bodies(l) |-> 0]
  /\ moon = [orbit |-> 0, spin |-> 0]
  /\ mDrops \in (IF l = "room" THEN [1..Columns -> DropChoices] ELSE {<<>>})
  /\ matrixTex = IF l = "room" THEN NewCanvasTexture ELSE NoCanvasTexture
  /\ codeScroll = 0
  /\ sideCanvas = <<>>
  /\ codeTex = IF l = "room" THEN NewCanvasTexture ELSE NoCanvasTexture
  /\ timers = [pending |-> 0, fired |-> 0]
  /\ pose = [set |-> FALSE, time |-> 0]

Init ==
  /\ scene \in Scenes
  /\ Constructed(Loaded(scene))

\* each program a module of its own (lines 1-269; lines 271-693 with line
\* 275 read as an import declaration): every program is evaluated
InitAsRead ==
  /\ scene \in Scenes
  /\ Constructed(scene)

\* line 171: animateMatrixRain();
MainMatrixRain ==
  /\ scene = "room"
  /\ pc = "L171"
  /\ AnimateMatrixRain
  /\ pc' = AfterCall(scene, pc)
  /\ running' = running

\* line 203: animateCodeOutput();
MainCodeOutput ==
  /\ scene = "room"
  /\ pc = "L203"
  /\ AnimateCodeOutput
  /\ pc' = AfterCall(scene, pc)
  /\ running' = running

\* line 416: animate();
MainAnimateRoom ==
  /\ scene = "room"
  /\ pc = "L416"
  /\ AnimateRoom
  /\ pc' = AfterCall(scene, pc)
  /\ running' = running

\* line 269: animate();
MainAnimateA ==
  /\ scene = "solarA"
  /\ pc = "L269"
  /\ AnimateA
  /\ pc' = AfterCall(scene, pc)
  /\ running' = running

\* the load event of the window: every image the script has asked for has
\* been fetched or has failed
LoadEventReady == \A t \in Textures(scene) : texStatus[t] # "pending"

\* window.onload = function() { animate(); } (lines 690-692)
WindowOnload ==
  /\ scene = "solarB"
  /\ pc = "onload"
  /\ LoadEventReady
  /\ AnimateB
  /\ pc' = AfterCall(scene, pc)
  /\ running' = running

\* ------------------------------------------------- the display refresh
\* a refresh takes the callbacks registered so far, in registration order
BeginFrame ==
  /\ pc = "idle"
  /\ running = <<>>
  /\ rafQueue # <<>>
  /\ ticks < MaxTicks
  /\ running' = rafQueue
  /\ rafQueue' = <<>>
  /\ trace' = <<>>
  /\ UNCHANGED <<scene, sceneGraph, pc, ticks, camVars, viewVars, lastRender,
                 texVars, solarVars, rainVars, codeVars, pose>>

RunMatrixRain ==
  /\ running # <<>>
  /\ Head(running) = "animateMatrixRain"
  /\ AnimateMatrixRain
  /\ running' = Tail(running)
  /\ pc' = pc

RunAnimateRoom ==
  /\ scene = "room"
  /\ running # <<>>
  /\ Head(running) = "animate"
  /\ AnimateRoom
  /\ running' = Tail(running)
  /\ pc' = pc

RunAnimateA ==
  /\ scene = "solarA"
  /\ running # <<>>
  /\ Head(running) = "animate"
  /\ AnimateA
  /\ running' = Tail(running)
  /\ pc' = pc

RunAnimateB ==
  /\ scene = "solarB"
  /\ running # <<>>
  /\ Head(running) = "animate"
  /\ AnimateB
  /\ running' = Tail(running)
  /\ pc' = pc

Next ==
  \/ MainMatrixRain
  \/ MainCodeOutput
  \/ MainAnimateRoom
  \/ BeginFrame
  \/ RunMatrixRain
  \/ RunAnimateRoom
  \/ CodeTimer
  \/ Wheel
  \/ Resize

Spec == Init /\ [][Next]_vars

\* the steps of the three programs, those of the two solar variants included
NextAsRead ==
  \/ MainMatrixRain
  \/ MainCodeOutput
  \/ MainAnimateRoom
  \/ MainAnimateA
  \/ WindowOnload
  \/ BeginFrame
  \/ RunMatrixRain
  \/ RunAnimateRoom
  \/ RunAnimateA
  \/ RunAnimateB
  \/ CodeTimer
  \/ Wheel
  \/ Resize
  \/ TextureLoaded
  \/ TextureFailed

SpecAsRead == InitAsRead /\ [][NextAsRead]_vars

\* ============================================================== claims
Solar == scene \in {"solarA", "solarB"}

\* the program whose statements run in the behaviour: none when the module
\* the page loads was rejected
Program == IF pc = "rejected" THEN "none" ELSE scene

\* the accumulated orbital angle of a body: pg.angle in the first variant,
\* orbitGroup.rotation.y (the only accumulator) in the second
OrbitalAngle(b) == IF scene = "solarA" THEN angle[b] ELSE orbitRot[b]
OrbitSpeed(b) == IF scene = "solarA" THEN OrbitSpeedA(b) ELSE OrbitSpeedB(b)

\* C1 as stated: after k executions of animate, for every k >= 0, every
\* body's accumulated orbital angle equals k times its per-frame orbital
\* speed, modulo 2*pi.
C1_AngleIsTicksTimesSpeed ==
  Solar =>
    \A b \in Bodies(Program) :
      (OrbitalAngle(b) - ticks * OrbitSpeed(b)) % TwoPi = 0

\* the group-level statement of the tick of variant s as it reads, run for
\* body b on a group whose rotation is rot while the body's accumulated angle
\* is a
GroupStatement(s, rot, a, b) ==
  IF s = "solarA" THEN GroupRotationA(rot, a)
  ELSE GroupRotationB(rot, OrbitSpeedB(b))

\* C2 as stated: in every variant the tick sets the orbit group's rotation:
\* after every tick it equals the body's accumulated angle, and the
\* group-level statement, run again without a new accumulation, leaves the
\* rotation as the tick left it.
C2_GroupRotationSetInEveryVariant ==
  (Solar /\ ticks > 0) =>
    \A b \in Bodies(Program) :
      /\ orbitRot[b] = OrbitalAngle(b)
      /\ GroupStatement(scene, orbitRot[b], OrbitalAngle(b), b) = orbitRot[b]

\* C3 as stated: whenever a texture load has failed, the texture the caller
\* of loadTexture holds is the placeholder of the fallback color.
C3_FailedLoadHoldsPlaceholder ==
  \A t \in Textures(Program) :
    texStatus[t] = "failed" => held[t] = ErrorCallbackResult(FallbackColor)

\* C4: in the second variant the moon's orbital angle after k ticks is k
\* times its own increment, whatever the orbital angle and spin of Earth are:
\* an execution of animate adds the increment to it and no other step
\* changes it.
C4_MoonAngleIndependent ==
  /\ [](Program = "solarB" => moon.orbit = ticks * MoonOrbitStep)
  /\ [][Program = "solarB" =>
          moon.orbit' = IF ticks' = ticks + 1 THEN moon.orbit + MoonOrbitStep
                        ELSE moon.orbit]_vars

\* C4 witness: three ticks, Earth's orbit group and spin both advanced, a
\* resize since the last render.
C4_Witness ==
  /\ Program = "solarB"
  /\ ticks = 3
  /\ moon.orbit = 3 * MoonOrbitStep
  /\ orbitRot[EarthB] = 3 * OrbitSpeedB(EarthB)
  /\ spin[EarthB] = 3 * SpinStepB(EarthB)
  /\ moon.orbit # orbitRot[EarthB] + MoonOrbitStep
  /\ window # lastRender.viewport

\* C6: every rendered frame is drawn with the camera aspect W/H and the render
\* surface (and, in the room, the composer) sized (W, H) of the viewport as it
\* is when the frame is rendered.
C6_FrameMatchesViewport ==
  ticks > 0 =>
    /\ SameRatio(lastRender.aspect, lastRender.viewport)
    /\ lastRender.size = lastRender.viewport
    /\ scene = "room" => lastRender.composer = lastRender.viewport

\* C6 witness: a frame of the room rendered after a resize away from the
\* initial window size.
C6_Witness ==
  /\ scene = "room"
  /\ ticks > 1
  /\ lastRender.viewport # InitialWindow
  /\ lastRender.size = lastRender.viewport
  /\ lastRender.composer = lastRender.viewport

\* the place of a step in the order the specification gives
StepRank(step) ==
  CASE step = "controls.update" -> 1
    [] step = "accumulate" -> 2
    [] step = "repaint" -> 3
    [] step = "render" -> 4

\* a refresh tick has run all its callbacks
TickDone == pc = "idle" /\ running = <<>> /\ ticks > 0

\* C7 as stated: the steps of a refresh tick run in the order controls.update,
\* accumulation, matrix-rain repaint, render.
C7_StepsInStatedOrder ==
  (TickDone /\ ticks > 1) =>
    \A i, j \in 1..Len(trace) : i < j => StepRank(trace[i]) < StepRank(trace[j])

\* C7 amended: in the room every refresh tick runs the matrix-rain repaint
\* first, then controls.update, the pose update and the render (the repaint
\* precedes that tick's controls.update and none follows its render); in the
\* solar scenes a tick runs controls.update, the accumulation and the render.
C7_StepsInCodeOrder ==
  TickDone =>
    trace = IF scene = "room"
            THEN <<"repaint", "controls.update", "accumulate", "render">>
            ELSE <<"controls.update", "accumulate", "render">>

\* C7 witness: the third tick of the room, complete.
C7_Witness ==
  /\ scene = "room"
  /\ TickDone
  /\ ticks = 3
  /\ trace[1] = "repaint"
  /\ trace[Len(trace)] = "render"

Range(seq) == {seq[i] : i \in 1..Len(seq)}

\* animate is registered for the next refresh, or about to run in this one
LoopAlive == "animate" \in (Range(rafQueue) \cup Range(running))
\* a texture load the script began has neither completed nor failed
SomeLoadPending == \E t \in Textures(Program) : texStatus[t] = "pending"

\* C8 as stated: texture loads still pending never keep the frame loop from
\* starting: once the script has run, with loads pending, the loop is going
\* or can start at once.
C8_LoopStartsWhileLoadsPending ==
  (ScriptDone /\ SomeLoadPending) => (LoopAlive \/ ENABLED WindowOnload)

\* C8 amended: once started the frame loop is never stalled by texture
\* loading (animate stays registered whatever loads are pending or failed) and
\* a load or error callback changes the texture's own state and nothing else;
\* the first variant and the room start the loop from the script, whatever the
\* loads; the second variant starts it from window.onload, which fires only
\* once no texture load is pending, so there no tick runs while one is.
C8_LoopNeverStalledOnceStarted ==
  /\ [](pc = "idle" => LoopAlive)
  /\ []((scene = "solarA" /\ ScriptDone /\ SomeLoadPending) => LoopAlive)
  /\ []((Program = "solarB" /\ ticks > 0) => ~SomeLoadPending)
  /\ []((Program = "solarB" /\ pc = "onload") => ticks = 0)
  /\ [][texStatus' # texStatus =>
          UNCHANGED <<scene, sceneGraph, schedVars, trace, ticks, camVars, viewVars,
                      lastRender, solarVars, rainVars, codeVars, pose>>]_vars

\* C8 witness: the first variant three ticks on, one load pending and one
\* failed.
C8_Witness ==
  /\ scene = "solarA"
  /\ ticks = 3
  /\ texStatus[1] = "pending"
  /\ texStatus[2] = "failed"
  /\ LoopAlive

\* C9: a firing of the code-scroll timer leaves the camera, the pose, the
\* matrix-rain drops and the matrix texture unchanged, and neither frame
\* callback (animate, animateMatrixRain) changes codeScroll.
C9_CodeTimerWritesOwnState ==
  [][/\ timers.fired' # timers.fired =>
          UNCHANGED <<camVars, pose, mDrops, matrixTex, lastRender, ticks>>
     /\ (ticks' # ticks \/ mDrops' # mDrops) => codeScroll' = codeScroll]_vars

\* C9 witness: the room after two timer firings and three ticks.
C9_Witness ==
  /\ scene = "room"
  /\ timers.fired = 2
  /\ codeScroll = 2
  /\ ticks = 3
  /\ pose.set

\* C10 as stated: all per-frame mutation is performed by animate: a step that
\* changes an angle, a spin, a drop, or the pose is an execution of animate.
C10_AllFrameMutationInAnimate ==
  [][(pc = "idle" /\ (solarVars' # solarVars \/ mDrops' # mDrops \/ pose' # pose)) =>
        ticks' = ticks + 1]_vars

\* C10 amended: every mutable variable has one writer, but the per-frame
\* writers are two in the room. Angles, spins and the pose change only in an
\* execution of animate; the drops and the dirty mark of the matrix texture
\* only in animateMatrixRain, which is no execution of animate; codeScroll and
\* the dirty mark of the code texture only in the timer callback.
C10_OneWriterEach ==
  [][/\ (solarVars' # solarVars \/ pose' # pose) => ticks' = ticks + 1
     /\ (mDrops' # mDrops \/ matrixTex.version' # matrixTex.version) =>
          /\ mDrops' # mDrops
          /\ matrixTex.version' = matrixTex.version + 1
          /\ ticks' = ticks
          /\ timers' = timers
     /\ (codeScroll' # codeScroll \/ codeTex.version' # codeTex.version) =>
          /\ timers.fired' = timers.fired + 1
          /\ codeTex.version' = codeTex.version + 1
          /\ ticks' = ticks
          /\ mDrops' = mDrops]_vars

\* C10 witness: the room with all three writers having run more than once.
C10_Witness ==
  /\ scene = "room"
  /\ ticks = 2
  /\ matrixTex.version = 3
  /\ codeTex.version = 3
  /\ timers.fired = 2
  /\ running = <<>>

\* C11: a body's accumulated orbital angle is never wrapped and never reset:
\* its per-frame speed is positive, every execution of animate adds exactly
\* that speed to it (so it grows strictly, past a full turn as well), and no
\* step that is not an execution of animate (resize, texture callback, wheel
\* input, timer) changes it.
C11_AngleOnlyGrowsBySpeed ==
  [][Solar =>
       \A b \in Bodies(Program) :
         /\ OrbitSpeed(b) > 0
         /\ ticks' = ticks + 1 =>
              /\ OrbitalAngle(b)' = OrbitalAngle(b) + OrbitSpeed(b)
              /\ OrbitalAngle(b)' > OrbitalAngle(b)
         /\ ticks' = ticks => OrbitalAngle(b)' = OrbitalAngle(b)]_vars

\* C11 witness: Pluto of the first variant, started at a full turn, four
\* ticks on and beyond the turn, a wheel input and a failed load in between.
C11_Witness ==
  /\ scene = "solarA"
  /\ ticks = 4
  /\ angle[9] = TwoPi + 4 * OrbitSpeedA(9)
  /\ angle[9] > TwoPi
  /\ pendingInput
  /\ texStatus[1] = "failed"

\* the room's dynamic canvas textures
CanvasTextures == <<matrixTex, codeTex>>

\* C12 as stated: every repaint of a dynamic canvas texture is followed by a
\* needsUpdate mark of that texture before the next render: at every render
\* the latest operation on each texture is a mark, not a repaint.
C12_RepaintFollowedByMark ==
  [][(scene = "room" /\ ticks' = ticks + 1) =>
       \A i \in 1..2 : CanvasTextures[i].lastOp = "mark"]_vars

\* C12 amended: every render uploads the latest repaint of both canvases, and
\* between callbacks a repaint not yet uploaded is always marked dirty. For
\* the matrix rain the mark follows the repaint in the same callback; for the
\* code scroll the mark precedes the repaint in the same timer callback (the
\* latest operation on the code texture is the repaint whenever a render
\* runs), and the start-up repaint is covered by the mark the CanvasTexture
\* constructor set.
C12_RenderUploadsLatestRepaint ==
  /\ [](scene = "room" =>
          \A i \in 1..2 :
            CanvasTextures[i].paints > CanvasTextures[i].shown =>
              CanvasTextures[i].version > CanvasTextures[i].uploaded)
  /\ [][(scene = "room" /\ ticks' = ticks + 1) =>
          /\ matrixTex.lastOp = "mark"
          /\ codeTex.lastOp = "paint"
          /\ matrixTex.paints > 0 /\ matrixTex'.shown = matrixTex.paints
          /\ codeTex.paints > 0 /\ codeTex'.shown = codeTex.paints]_vars
  /\ [][(codeTex.paints' # codeTex.paints /\ codeTex.paints > 0) =>
          codeTex.version' = codeTex.version + 1]_vars

\* C12 witness: the third render has just uploaded the third repaint of the
\* code canvas (two timer firings after start-up) and of the matrix canvas.
C12_Witness ==
  /\ scene = "room"
  /\ ticks = 3
  /\ running = <<>>
  /\ codeTex.paints = 3 /\ codeTex.shown = 3 /\ codeTex.lastOp = "paint"
  /\ matrixTex.paints = 3 /\ matrixTex.shown = 3

\* C13: the two cadences are independent. After n firings of the code timer
\* and any number of refresh ticks codeScroll is n mod 9; a firing of the
\* timer advances no drop; the drops advance once in every execution of
\* animateMatrixRain, of which there has been exactly one per execution of
\* animate whenever a refresh is complete, whatever n is.
C13_CadencesIndependent ==
  /\ [](scene = "room" =>
          /\ codeScroll = timers.fired % NumCodeLines
          /\ TickDone => matrixTex.paints = ticks)
  /\ [][scene = "room" =>
          /\ timers.fired' # timers.fired =>
               /\ codeScroll' = (codeScroll + 1) % NumCodeLines
               /\ mDrops' = mDrops
               /\ matrixTex' = matrixTex
               /\ ticks' = ticks
          /\ (mDrops' # mDrops) = (matrixTex.paints' = matrixTex.paints + 1)
          /\ mDrops' # mDrops => timers' = timers /\ codeScroll' = codeScroll]_vars

\* C13 witness: nine timer firings have wrapped codeScroll to 0 while only
\* two ticks ran.
C13_Witness ==
  /\ scene = "room"
  /\ TickDone
  /\ timers.fired = NumCodeLines
  /\ codeScroll = 0
  /\ ticks = 2
  /\ matrixTex.paints = 2

\* the per-frame spin increment of a body
SpinStep(b) == IF scene = "solarA" THEN SpinStepA(b) ELSE SpinStepB(b)

\* C14: a body's spin is accumulated on its own and never reset: after k
\* executions of animate it is k times the body's per-frame spin increment
\* (rotationSpeed * 0.03 in the first variant, 0.05 / rotationPeriod, negative
\* for a retrograde body, in the second), whatever its orbital angle is, and
\* only an execution of animate changes it.
C14_SpinIsTicksTimesStep ==
  /\ [](Solar =>
          \A b \in Bodies(Program) :
            /\ SpinStep(b) # 0
            /\ spin[b] = ticks * SpinStep(b)
            /\ scene = "solarA" => 100 * spin[b] = ticks * 3 * RotationSpeedTableA[b])
  /\ [][Solar =>
          \A b \in Bodies(Program) :
            spin'[b] = IF ticks' = ticks + 1 THEN spin[b] + SpinStep(b) ELSE spin[b]]_vars

\* C14 witness: Venus of the second variant after four ticks: its spin has
\* gone backwards four increments while its orbit group has gone forwards.
C14_Witness ==
  /\ Program = "solarB"
  /\ ticks = 4
  /\ spin[2] = 4 * SpinStepB(2)
  /\ spin[2] < 0
  /\ orbitRot[2] = 4 * OrbitSpeedB(2)
  /\ orbitRot[2] > 0

\* the body an orbit group owns
OwnedBody(g) == IF g[1] = "moonOrbit" THEN <<"moon", g[2]>> ELSE <<"planet", g[2]>>

\* C15: every orbit group (each planet's and the moon's) has exactly one
\* child, the body it owns, and sits at the origin of its parent; no step
\* (tick, resize, texture callback, wheel input) changes the children of any
\* object or the position of a group.
C15_OrbitGroupOwnsOneBody ==
  /\ [](Solar =>
          \A g \in OrbitGroups(Program) :
            /\ sceneGraph.children[g] = <<OwnedBody(g)>>
            /\ sceneGraph.groupPos[g] = Origin)
  /\ [][sceneGraph' = sceneGraph]_vars

\* C15 witness: the second variant two ticks on, after a resize: the moon's
\* orbit group holds the moon alone, while Earth holds its shells, the moon's
\* orbit group and the moon's path, and the scene holds the lights, the sun,
\* the orbit groups, the orbit paths and the stars.
C15_Witness ==
  /\ Program = "solarB"
  /\ ticks = 2
  /\ window # InitialWindow
  /\ sceneGraph.children[<<"moonOrbit", EarthB>>] = <<<<"moon", EarthB>>>>
  /\ sceneGraph.children[<<"planet", EarthB>>] =
       << <<"clouds", EarthB>>, <<"nightLights", EarthB>>,
          <<"moonOrbit", EarthB>>, <<"moonPath", EarthB>> >>
  /\ sceneGraph.children[<<"orbitGroup", SaturnB>>] = <<<<"planet", SaturnB>>>>
  /\ Len(sceneGraph.children[SceneRoot]) = 2 * Len(OrbitalPeriodTableB) + 4

\* C16: in the second variant, after every tick the rotation.x of each body
\* is its axialTilt in radians and the rotation.x of its cloud shell and of
\* its night-light shell, where it has one, equals it; a further tick assigns
\* the same values again.
C16_ShellTiltEqualsBodyTilt ==
  /\ []((Program = "solarB" /\ ticks > 0) =>
          \A b \in Bodies(scene) :
            /\ tilt[b].mesh = (AxialTiltTableB[b] * RadiansPerDegree) \div 1000
            /\ b \in HasCloudsB => tilt[b].clouds = tilt[b].mesh
            /\ b \in HasNightLightsB => tilt[b].night = tilt[b].mesh)
  /\ [][(Program = "solarB" /\ ticks > 0) => tilt' = tilt]_vars

\* C16 witness: Earth after three ticks, both shells tilted as the body is,
\* and Venus's cloud shell tilted with it, over seven times as far.
C16_Witness ==
  /\ Program = "solarB"
  /\ ticks = 3
  /\ tilt[EarthB].mesh > 0
  /\ tilt[EarthB].clouds = tilt[EarthB].mesh
  /\ tilt[EarthB].night = tilt[EarthB].mesh
  /\ tilt[2].clouds = tilt[2].mesh
  /\ tilt[2].mesh > 7 * tilt[EarthB].mesh
  /\ cloudSpin[EarthB] = 3 * CloudSpinStepB(EarthB)

\* the scheduled executions of a frame callback still to come: registered for
\* the next refresh, or taken by the refresh in progress and not yet run
PendingFrames(f) ==
  Cardinality({i \in 1..Len(rafQueue) : rafQueue[i] = f})
  + Cardinality({i \in 1..Len(running) : running[i] = f})

\* C17: each self-rescheduling loop has at most one scheduled callback
\* pending at any time, and exactly one from its first execution on: animate
\* once it has run, animateMatrixRain once it has repainted, the code timer
\* once animateCodeOutput has painted. Callbacks never pile up and no loop
\* stops.
C17_OnePendingCallbackPerLoop ==
  /\ PendingFrames("animate") <= 1
  /\ PendingFrames("animateMatrixRain") <= 1
  /\ timers.pending <= 1
  /\ ticks > 0 => PendingFrames("animate") = 1
  /\ matrixTex.paints > 0 => PendingFrames("animateMatrixRain") = 1
  /\ codeTex.paints > 0 => timers.pending = 1
  /\ scene # "room" => PendingFrames("animateMatrixRain") = 0 /\ timers.pending = 0

\* C17 witness: the room in the middle of its second refresh: the matrix-rain
\* callback has run and registered itself again, animate is still to run, the
\* code timer is armed after its first firing.
C17_Witness ==
  /\ scene = "room"
  /\ ticks = 1
  /\ running = <<"animate">>
  /\ rafQueue = <<"animateMatrixRain">>
  /\ timers.fired = 1
  /\ timers.pending = 1

\* a matrix-rain repaint has run whose render is still to come: at start-up
\* between lines 171 and 416, in a refresh between the two frame callbacks
RepaintAwaitsRender ==
  \/ pc \in {"L203", "L416"}
  \/ (running # <<>> /\ Head(running) = "animate")

\* C18: in the room the matrix-rain repaints and the renders alternate,
\* repaint first: the number of repaints equals the number of renders, or
\* exceeds it by one exactly between a repaint and the render following it;
\* a render runs only after a repaint since the last render, a repaint only
\* after the render of the repaint before.
C18_RepaintsAlternateWithRenders ==
  /\ [](scene = "room" =>
          /\ matrixTex.paints = IF RepaintAwaitsRender THEN ticks + 1 ELSE ticks
          /\ ticks > 0 => matrixTex.paints > 0)
  /\ [][scene = "room" =>
          /\ ticks' = ticks + 1 => matrixTex.paints = ticks + 1
          /\ matrixTex.paints' # matrixTex.paints =>
               /\ matrixTex.paints = ticks
               /\ matrixTex.paints' = ticks + 1]_vars

\* C18 witness: the fourth repaint has run and the fourth render has not.
C18_Witness ==
  /\ scene = "room"
  /\ ticks = 3
  /\ matrixTex.paints = 4
  /\ matrixTex.shown = 3
  /\ RepaintAwaitsRender

\* C19: codeScroll is always an index of codeLines (0..8), and every repaint
\* of the side panel draws nine rows, row i (from 0) showing line
\* (codeScroll + i) mod 9: each of the nine lines exactly once, in cyclic
\* order from codeScroll.
C19_PanelShowsEachLineOnce ==
  scene = "room" =>
    /\ codeScroll \in 0..(NumCodeLines - 1)
    /\ codeTex.paints > 0 =>
         /\ Len(sideCanvas) = 9
         /\ \A i \in 1..Len(sideCanvas) :
              sideCanvas[i] = (codeScroll + (i - 1)) % NumCodeLines
         /\ \A line \in 0..(NumCodeLines - 1) :
              Cardinality({i \in 1..Len(sideCanvas) : sideCanvas[i] = line}) = 1

\* C19 witness: the panel after eight firings: the last line on the top row,
\* the first line under it, the last but one at the bottom.
C19_Witness ==
  /\ scene = "room"
  /\ timers.fired = 8
  /\ codeScroll = 8
  /\ sideCanvas[1] = 8
  /\ sideCanvas[2] = 0
  /\ sideCanvas[9] = 7

\* the matrix-rain callback is the next to run and column i, once advanced,
\* will be past the reset threshold
RepaintPastThreshold(i) ==
  /\ running # <<>>
  /\ Head(running) = "animateMatrixRain"
  /\ mDrops[i].y + mDrops[i].speed > 10 * (MatrixCanvasHeight + ResetMargin)

\* C20: for every column the drop's y is never negative and its speed is
\* positive and fixed; every repaint either advances y by the speed or, only
\* when the advanced y exceeds the canvas height plus 80, resets it to 0; no
\* other step changes a drop; and past the threshold both outcomes are
\* possible, so a drop can keep falling beyond it.
C20_DropAdvancesOrResetsPastThreshold ==
  /\ [](scene = "room" =>
          \A i \in 1..Len(mDrops) :
            /\ mDrops[i].y >= 0
            /\ mDrops[i].speed > 0
            /\ RepaintPastThreshold(i) =>
                 /\ ENABLED (RunMatrixRain /\ mDrops'[i].y = 0)
                 /\ ENABLED (RunMatrixRain
                             /\ mDrops'[i].y = mDrops[i].y + mDrops[i].speed))
  /\ [][scene = "room" =>
          \A i \in 1..Len(mDrops) :
            /\ mDrops'[i].speed = mDrops[i].speed
            /\ matrixTex.paints' = matrixTex.paints => mDrops'[i] = mDrops[i]
            /\ matrixTex.paints' # matrixTex.paints =>
                 \/ mDrops'[i].y = mDrops[i].y + mDrops[i].speed
                 \/ /\ mDrops'[i].y = 0
                    /\ mDrops[i].y + mDrops[i].speed >
                         10 * (MatrixCanvasHeight + ResetMargin)]_vars

\* C20 witness: a drop that has passed the threshold and was not reset in
\* the repaint that took it past, nor in the next: it is two steps beyond.
C20_Witness ==
  /\ scene = "room"
  /\ Len(mDrops) > 0
  /\ mDrops[1].y - mDrops[1].speed > 10 * (MatrixCanvasHeight + ResetMargin)
  /\ matrixTex.paints = 20

\* C21: a run of the resize listener (the only step in which the window size
\* changes) sets the camera aspect and the render surface, and in the room the
\* composer, to the new window size, and changes nothing else: every orbital
\* angle, spin, orbit-group rotation, drop, codeScroll, texture mark, the
\* input the controls hold, the scene graph and every pending frame callback
\* and timer are as they were.
C21_ResizeWritesViewOnly ==
  [][window' # window =>
       /\ SameRatio(cameraAspect', window')
       /\ rendererSize' = window'
       /\ composerSize' = IF scene = "room" THEN window' ELSE composerSize
       /\ UNCHANGED <<scene, sceneGraph, schedVars, trace, ticks, camVars,
                      lastRender, texVars, solarVars, rainVars, codeVars, pose>>]_vars

\* C21 witness: the room resized after its second tick, before the next
\* render: both frame callbacks and the code timer still pending, the scroll
\* and the rain where they were.
C21_Witness ==
  /\ scene = "room"
  /\ ticks = 2
  /\ window = <<1920, 1080>>
  /\ lastRender.viewport = InitialWindow
  /\ cameraAspect = window /\ rendererSize = window /\ composerSize = window
  /\ rafQueue = <<"animateMatrixRain", "animate">>
  /\ timers.pending = 1
  /\ codeScroll = 1
  /\ matrixTex.paints = 2

====
